---- MODULE Spec2Model ----
(***************************************************************************)
(* Edge-uncertainty analysis of probability masks.                         *)
(*                                                                         *)
(*   src/EdgeUncertaintyAnalysis.py      calculate_edge_fuzziness,         *)
(*                                       process_all_masks                 *)
(*   src/EdgeUncertaintyMaskCreation.py  create_uncertainty_mask_with_     *)
(*                                       certain,                          *)
(*                                       generate_enhanced_uncertainty_    *)
(*                                       masks                             *)
(*                                                                         *)
(* Numbers.  A probability p is held as the integer p * One (One = 100, so *)
(* 0.2 is 20, 1.5 is 150).  A mean is held as an exact fraction           *)
(* [num, den] in the same unit.  The arithmetic is exact: binary floating  *)
(* point rounding is not modelled.  A volume is the flattened sequence of  *)
(* its voxels.                                                             *)
(*                                                                         *)
(* Two specifications share the variables:                                 *)
(*   SpecVol  one volume, to which the two per-volume functions are        *)
(*            applied;                                                     *)
(*   Spec     the batch: process_all_masks over an enumerated case set,    *)
(*            followed by generate_enhanced_uncertainty_masks: the case    *)
(*            selection and the encoding of the selected cases;            *)
(*   SpecLive Spec with the fairness of the sequential run of              *)
(*            process_all_masks.                                           *)
(***************************************************************************)
EXTENDS Integers, Sequences, FiniteSets, TLC

\* ------------------------------------------------------------------ bounds
MaxVoxels == 3
MaxCases == 2
MaxTopN == 2

\* The literal 1 (probability one) in the unit of the model.
One == 100

\* Voxel values of the volumes of SpecVol: below 0, 0, inside (0,1), 1, above 1.
ProbValues == {-50, 0, 1, 20, 50, 80, 93, 100, 150}

\* Python's None; a value not yet computed.
None == [none |-> TRUE]
\* The spatial metadata of an image: its affine, and its header, which also
\* names the data type of the stored array.
Affines == {"affine_a", "affine_b"}
Headers == {[pixdim |-> "pixdim_a", datatype |-> "float64"],
            [pixdim |-> "pixdim_b", datatype |-> "uint8"]}
\* A source file that nib.load reads: the array, the affine and the header.
NiftiFile(data, affine, header) ==
    [readable |-> TRUE, data |-> data, affine |-> affine, header |-> header]
\* A source file: nib.load raises on an unreadable one.
File(data) ==
    NiftiFile(data, "affine_a", [pixdim |-> "pixdim_a", datatype |-> "float64"])
Unreadable == [readable |-> FALSE, data |-> <<>>]
Pending == [pending |-> TRUE]

\* ---------------------------------------------------------- numpy helpers
Min2(a, b) == IF a <= b THEN a ELSE b
Max2(a, b) == IF a >= b THEN a ELSE b

\* np.sum over an array
RECURSIVE np_sum(_)
np_sum(s) == IF s = <<>> THEN 0 ELSE Head(s) + np_sum(Tail(s))

\* np.sum over a boolean mask: the number of True entries
RECURSIVE count_true(_)
count_true(m) ==
    IF m = <<>> THEN 0 ELSE (IF Head(m) THEN 1 ELSE 0) + count_true(Tail(m))

\* np.min / np.max over a non-empty array
RECURSIVE np_min(_)
np_min(s) == IF Len(s) = 1 THEN s[1] ELSE Min2(Head(s), np_min(Tail(s)))

RECURSIVE np_max(_)
np_max(s) == IF Len(s) = 1 THEN s[1] ELSE Max2(Head(s), np_max(Tail(s)))

\* data[mask]: the entries of data at the True positions of mask, in order
RECURSIVE bool_index(_, _)
bool_index(data, mask) ==
    IF data = <<>> THEN <<>>
    ELSE (IF Head(mask) THEN <<Head(data)>> ELSE <<>>)
         \o bool_index(Tail(data), Tail(mask))

\* exact fractions
Frac(n, d) == [num |-> n, den |-> d]
FracGeq(a, b) == a.num * b.den >= b.num * a.den
FracEq(a, b) == a.num * b.den = b.num * a.den
FracPos(a) == a.num > 0

\* ------------------------------------------------ calculate_edge_fuzziness
AnalysisUncertainMask_inclusive(data) ==
    [i \in DOMAIN data |-> data[i] > 0 /\ data[i] <= One]

\* uncertain_mask = (data > 0) & (data < 1)
AnalysisUncertainMask(data) ==
    [i \in DOMAIN data |-> data[i] > 0 /\ data[i] < One]

\* np.mean(1 - uncertain_voxels) if len(uncertain_voxels) > 0 else 0.0
MeanUncertainty(uncertain_voxels) ==
    IF Len(uncertain_voxels) > 0
    THEN [num |-> np_sum([i \in DOMAIN uncertain_voxels |->
                             One - uncertain_voxels[i]]),
          den |-> Len(uncertain_voxels)]
    ELSE [num |-> 0, den |-> 1]

SumUncertainties_uncertain_count(data) ==
    count_true(AnalysisUncertainMask(data)) * One - np_sum(data)

SumUncertainties_nonnegative_count(data) ==
    count_true([i \in DOMAIN data |-> data[i] >= 0]) * One - np_sum(data)

\* np.sum(data > 0) - np.sum(data)
SumUncertainties(data) ==
    count_true([i \in DOMAIN data |-> data[i] > 0]) * One - np_sum(data)

\* The dictionary returned for a readable volume; None for an unreadable one.
calculate_edge_fuzziness(file) ==
    IF ~file.readable THEN None
    ELSE
    LET data == file.data
        uncertain_mask == AnalysisUncertainMask(data)
        uncertain_voxels == bool_index(data, uncertain_mask)
        n == Len(uncertain_voxels)
        mean_uncertainty == MeanUncertainty(uncertain_voxels)
        sum_probabilities == np_sum(data)
    IN  [ mean_uncertainty |-> mean_uncertainty,
          sum_uncertainties |-> Frac(SumUncertainties(data), 1),
          count_uncertain |-> Frac(n, 1),
          total_voxels |-> Len(data),
          uncertain_voxels |-> n,
          background_voxels |-> count_true([i \in DOMAIN data |-> data[i] = 0]),
          certain_foreground_voxels |->
              count_true([i \in DOMAIN data |-> data[i] = One]),
          sum_probabilities |-> sum_probabilities,
          nonzero_voxels |-> count_true([i \in DOMAIN data |-> data[i] > 0]),
          mean_probability |->
              IF n > 0 THEN Frac(np_sum(uncertain_voxels), n) ELSE Frac(0, 1),
          min_prob |-> IF n > 0 THEN np_min(uncertain_voxels) ELSE 0,
          max_prob |-> IF n > 0 THEN np_max(uncertain_voxels) ELSE One ]

\* ------------------------------------ create_uncertainty_mask_with_certain
\* min_uncertainty * 0.95 is min_uncertainty * CertainNum / CertainDen
CertainNum == 19
CertainDen == 20

\* A continuous (float) uncertainty u is held as the integer
\* u * One * CertainDen, so that 0.95 * (1 - p) is an integer.
FloatOne == One * CertainDen

\* certain_uncertainty_value = 0.01
DefaultCertainValue == FloatOne \div 100

\* background_mask = (prob_data == 0)
BackgroundMask(prob_data) == [i \in DOMAIN prob_data |-> prob_data[i] = 0]

\* uncertain_mask = (prob_data > 0) & (prob_data < 1)
UncertainMask(prob_data) ==
    [i \in DOMAIN prob_data |-> prob_data[i] > 0 /\ prob_data[i] < One]

\* certain_fg_mask = (prob_data > 0) & ~uncertain_mask
CertainFgMask(prob_data) ==
    [i \in DOMAIN prob_data |->
        prob_data[i] > 0 /\ ~UncertainMask(prob_data)[i]]

CertainUncertaintyValue_unscaled(uncertainty_values) ==
    IF Len(uncertainty_values) > 0
    THEN np_min(uncertainty_values)
    ELSE DefaultCertainValue

CertainUncertaintyValue_of_max(uncertainty_values) ==
    IF Len(uncertainty_values) > 0
    THEN (np_max(uncertainty_values) * CertainNum) \div CertainDen
    ELSE DefaultCertainValue

\* certain_uncertainty_value: min_uncertainty * 0.95 when there are uncertain
\* voxels, else 0.01
CertainUncertaintyValue(uncertainty_values) ==
    IF Len(uncertainty_values) > 0
    THEN (np_min(uncertainty_values) * CertainNum) \div CertainDen
    ELSE DefaultCertainValue

ContinuousOf_probability(prob_data, certain_uncertainty_value) ==
    [i \in DOMAIN prob_data |->
        IF CertainFgMask(prob_data)[i] THEN certain_uncertainty_value
        ELSE IF UncertainMask(prob_data)[i]
             THEN prob_data[i] * CertainDen
             ELSE 0]

\* uncertainty_float: zeros, then 1 - p at the uncertain voxels, then the
\* certain value at the certain foreground voxels
ContinuousOf(prob_data, certain_uncertainty_value) ==
    [i \in DOMAIN prob_data |->
        IF CertainFgMask(prob_data)[i] THEN certain_uncertainty_value
        ELSE IF UncertainMask(prob_data)[i]
             THEN (One - prob_data[i]) * CertainDen
             ELSE 0]

DiscreteOf_wraps_at_256(uncertainty_float) ==
    LET non_bg_mask == [i \in DOMAIN uncertainty_float |->
                           uncertainty_float[i] > 0]
    IN  IF count_true(non_bg_mask) > 0
        THEN LET max_uncertainty ==
                     np_max(bool_index(uncertainty_float, non_bg_mask))
             IN  [i \in DOMAIN uncertainty_float |->
                    IF non_bg_mask[i] /\ max_uncertainty > 0
                    THEN ((uncertainty_float[i] * 255) \div max_uncertainty
                          + 1) % 256
                    ELSE 0]
        ELSE [i \in DOMAIN uncertainty_float |-> 0]

DiscreteOf_from_zero(uncertainty_float) ==
    LET non_bg_mask == [i \in DOMAIN uncertainty_float |->
                           uncertainty_float[i] > 0]
    IN  IF count_true(non_bg_mask) > 0
        THEN LET max_uncertainty ==
                     np_max(bool_index(uncertainty_float, non_bg_mask))
             IN  [i \in DOMAIN uncertainty_float |->
                    IF non_bg_mask[i] /\ max_uncertainty > 0
                    THEN Min2(255, Max2(1,
                           (uncertainty_float[i] * 254) \div max_uncertainty))
                    ELSE 0]
        ELSE [i \in DOMAIN uncertainty_float |-> 0]

\* The uint8 array: non-zero continuous values scaled into [1, 255];
\* astype(np.uint8) drops the fraction of the clipped value.
DiscreteOf(uncertainty_float) ==
    LET non_bg_mask == [i \in DOMAIN uncertainty_float |->
                           uncertainty_float[i] > 0]
    IN  IF count_true(non_bg_mask) > 0
        THEN LET max_uncertainty ==
                     np_max(bool_index(uncertainty_float, non_bg_mask))
             IN  [i \in DOMAIN uncertainty_float |->
                    IF non_bg_mask[i] /\ max_uncertainty > 0
                    THEN Min2(255, Max2(1,
                           (uncertainty_float[i] * 254) \div max_uncertainty
                           + 1))
                    ELSE 0]
        ELSE [i \in DOMAIN uncertainty_float |-> 0]

Nifti1Image_without_header(dataobj, affine, header, dtype) ==
    [data |-> dataobj, affine |-> affine,
     header |-> [pixdim |-> "pixdim_default", datatype |-> dtype]]

\* nib.Nifti1Image(dataobj, affine, header) and header.set_data_dtype(dtype)
\* on the header of the new image
Nifti1Image(dataobj, affine, header, dtype) ==
    [data |-> dataobj, affine |-> affine,
     header |-> [header EXCEPT !.datatype = dtype]]

\* The whole encoder on one volume: (success, histogram input, stats) and the
\* two arrays that are saved.
create_uncertainty_mask_with_certain(file) ==
    IF ~file.readable
    THEN [success |-> FALSE, histogram_path |-> "None", stats |-> None]
    ELSE
    LET prob_data == file.data
        background_mask == BackgroundMask(prob_data)
        uncertain_mask == UncertainMask(prob_data)
        certain_fg_mask == CertainFgMask(prob_data)
        has_uncertain == count_true(uncertain_mask) > 0
        \* 1.0 - prob_data[uncertain_mask]
        uncertainty_values ==
            LET u == bool_index(prob_data, uncertain_mask)
            IN  [i \in DOMAIN u |-> (One - u[i]) * CertainDen]
        min_uncertainty == np_min(uncertainty_values)
        certain_uncertainty_value ==
            CertainUncertaintyValue(uncertainty_values)
        uncertainty_float == ContinuousOf(prob_data, certain_uncertainty_value)
        non_zero_uncertainties ==
            bool_index(uncertainty_float,
                       [i \in DOMAIN uncertainty_float |->
                           uncertainty_float[i] > 0])
        stats ==
            [ uncertain_voxels |-> count_true(uncertain_mask),
              certain_fg_voxels |-> count_true(certain_fg_mask),
              background_voxels |-> count_true(background_mask),
              total_voxels |-> Len(prob_data),
              min_uncertainty |->
                  IF has_uncertain THEN min_uncertainty ELSE 0,
              max_uncertainty |->
                  IF has_uncertain THEN np_max(uncertainty_values) ELSE 0,
              mean_uncertainty |->
                  IF has_uncertain
                  THEN Frac(np_sum(uncertainty_values),
                            Len(uncertainty_values))
                  ELSE Frac(0, 1),
              certain_uncertainty_value |-> certain_uncertainty_value ]
    IN  [ success |-> TRUE,
          histogram_path |-> IF Len(non_zero_uncertainties) = 0 THEN "None"
                             ELSE "histogram.png",
          histogram_values |-> non_zero_uncertainties,
          stats |-> stats,
          background_mask |-> background_mask,
          uncertain_mask |-> uncertain_mask,
          certain_fg_mask |-> certain_fg_mask,
          uncertainty_float |-> uncertainty_float,
          uncertainty_uint8 |-> DiscreteOf(uncertainty_float),
          \* the two images that nib.save writes
          float_image |-> Nifti1Image(uncertainty_float, file.affine,
                                      file.header, "float32"),
          uint8_image |-> Nifti1Image(DiscreteOf(uncertainty_float),
                                      file.affine, file.header, "uint8") ]

\* ------------------------------------------------------------- the state
VARIABLES
    \* SpecVol: one volume and what the two functions return for it
    vol_file,         \* the source file of the volume
    fuzziness,        \* calculate_edge_fuzziness(vol_file), once called
    encoded,          \* create_uncertainty_mask_with_certain(vol_file), once called
    \* Spec: process_all_masks
    pc,               \* position in the batch
    mask_files,       \* case i of the enumeration -> its source file
    processed_count,
    results,          \* list of result records
    df_mean, df_sum, df_count,   \* the three ranked tables
    combined_df,
    csv_files,        \* metric -> the ranking csv: [exists, rows]
    ret,              \* what process_all_masks returned
    stdout,           \* the printed lines that tell how the cases went
    summary_file,     \* the comprehensive summary: [exists, total_cases_processed]
    \* Spec: generate_enhanced_uncertainty_masks
    top_n,
    metrics_left,     \* metrics the loop has still to visit
    metric,           \* metric of the current iteration
    df,               \* table read from the csv of the current metric
    most_difficult, least_difficult,
    source_files,     \* case -> its file in source_dir, or Missing
    group,            \* the loop that runs: "most", "least", or "" for none
    row_idx,          \* rows of the selection that the loop has visited
    created_most, created_least,
    total_files_created,
    all_histogram_paths,
    encoder_calls,    \* the calls of create_uncertainty_mask_with_certain
    info_files,       \* metric -> its info file
    gen_ret           \* what generate_enhanced_uncertainty_masks returned

volVars == <<vol_file, fuzziness, encoded>>
analysisVars == <<mask_files, processed_count, results, df_mean, df_sum,
                  df_count, combined_df, csv_files, ret, stdout, summary_file>>
selVars == <<top_n, metrics_left, metric, df, most_difficult, least_difficult>>
encVars == <<source_files, group, row_idx, created_most, created_least,
             total_files_created, all_histogram_paths, encoder_calls,
             info_files, gen_ret>>
genVars == <<selVars, encVars>>
vars == <<volVars, pc, analysisVars, genVars>>

\* ------------------------------------------------------ SpecVol: one volume
Volumes == UNION {[1..n -> ProbValues] : n \in 1..MaxVoxels}

\* generate_enhanced_uncertainty_masks has not been called.
GenerateIdle ==
    /\ source_files = <<>>
    /\ group = ""
    /\ row_idx = 0
    /\ created_most = 0 /\ created_least = 0
    /\ total_files_created = 0
    /\ all_histogram_paths = <<>>
    /\ encoder_calls = <<>>
    /\ info_files = [m \in {"mean", "sum", "count"} |->
                        [exists |-> FALSE, created_most |-> 0,
                         created_least |-> 0]]
    /\ gen_ret = Pending

BatchIdle ==
    /\ pc = "idle"
    /\ mask_files = <<>>
    /\ processed_count = 0
    /\ results = <<>>
    /\ df_mean = <<>> /\ df_sum = <<>> /\ df_count = <<>>
    /\ combined_df = <<>>
    /\ csv_files = [m \in {"mean", "sum", "count"} |->
                        [exists |-> FALSE, rows |-> <<>>]]
    /\ ret = Pending
    /\ stdout = <<>>
    /\ summary_file = [exists |-> FALSE, total_cases_processed |-> 0]
    /\ top_n = 0
    /\ metrics_left = <<>>
    /\ metric = ""
    /\ df = <<>>
    /\ most_difficult = <<>> /\ least_difficult = <<>>
    /\ GenerateIdle

InitVol ==
    /\ vol_file \in {NiftiFile(v, a, h) :
                        v \in Volumes, a \in Affines, h \in Headers}
                    \cup {Unreadable}
    /\ fuzziness = Pending
    /\ encoded = Pending
    /\ BatchIdle

\* result = calculate_edge_fuzziness(mask_path)
CalculateEdgeFuzziness ==
    /\ pc = "idle"
    /\ fuzziness = Pending
    /\ fuzziness' = calculate_edge_fuzziness(vol_file)
    /\ UNCHANGED <<vol_file, encoded, pc, analysisVars, genVars>>

\* create_uncertainty_mask_with_certain(source_file, ...)
CreateUncertaintyMask ==
    /\ pc = "idle"
    /\ encoded = Pending
    /\ encoded' = create_uncertainty_mask_with_certain(vol_file)
    /\ UNCHANGED <<vol_file, fuzziness, pc, analysisVars, genVars>>

NextVol == CalculateEdgeFuzziness \/ CreateUncertaintyMask

SpecVol == InitVol /\ [][NextVol]_vars

\* ---------------------------------------------- pandas helpers (DataFrame)
\* A DataFrame is the sequence of its rows; a row is a record of its columns.
Metrics == <<"mean", "sum", "count">>

Reorderings(t) ==
    {[i \in 1..Len(t) |-> t[f[i]]] :
        f \in {g \in [1..Len(t) -> 1..Len(t)] :
                  \A i, j \in 1..Len(t) : i # j => g[i] # g[j]}}

sort_values_ascending(t, col) ==
    {s \in Reorderings(t) :
        \A i, j \in 1..Len(s) : i < j => FracGeq(s[j][col], s[i][col])}

\* df.sort_values(col, ascending=False).reset_index(drop=True): the default
\* kind is 'quicksort', which is not stable, so rows of equal value may come
\* out in any order: every descending reordering is a possible result.
sort_values(t, col) ==
    {s \in Reorderings(t) :
        \A i, j \in 1..Len(s) : i < j => FracGeq(s[i][col], s[j][col])}

\* df[rank_col] = range(1, len(df) + 1)
with_rank(t, rank_col) ==
    [i \in 1..Len(t) |-> t[i] @@ (rank_col :> i)]

merge_by_position(left, right, col) ==
    [i \in 1..Len(left) |-> left[i] @@ (col :> right[i][col])]

\* left.merge(right[['case_id', col]], on='case_id'): inner join, one row per
\* pair of rows of equal case_id, in the order of the left rows.
RECURSIVE merge(_, _, _)
merge(left, right, col) ==
    IF left = <<>> THEN <<>>
    ELSE LET l == Head(left)
             matches == SelectSeq(right, LAMBDA r : r.case_id = l.case_id)
         IN  [i \in 1..Len(matches) |-> l @@ (col :> matches[i][col])]
             \o merge(Tail(left), right, col)

head_one_short(t, n) == SubSeq(t, 1, Min2(n, Len(t)) - 1)

\* df.head(n), n >= 1
head(t, n) == SubSeq(t, 1, Min2(n, Len(t)))

\* df.tail(n), n >= 1
tail(t, n) == SubSeq(t, Max2(1, Len(t) - n + 1), Len(t))

\* ------------------------------------------------------- process_all_masks
\* Source files of the enumerated cases.  Their metrics (mean, sum, count):
\*   [0, 1, 1]        0    0    0     (binary mask)
\*   [1, 1, 0.5]      0.5  0.5  1
\*   [0.2, 0.5, 0.8]  0.5  1.5  3
\*   [0, 0.1]         0.9  0.9  1
CaseFiles ==
    {Unreadable, File(<<0, 100, 100>>), File(<<100, 100, 50>>),
     File(<<20, 50, 80>>), File(<<0, 10>>)}

\* The enumerated case sets: up to MaxCases cases, each with its own file; the
\* readable files of two cases differ.
CaseSets ==
    {f \in UNION {[1..n -> CaseFiles] : n \in 0..MaxCases} :
        \A i, j \in DOMAIN f :
            i # j /\ f[i].readable /\ f[j].readable => f[i] # f[j]}

VolIdle ==
    /\ vol_file = Unreadable
    /\ fuzziness = Pending
    /\ encoded = Pending

\* The case identifiers are 1, 2, ... in the order mask_files.items()
\* enumerates them.
Init ==
    /\ VolIdle
    /\ pc = "process"
    /\ mask_files \in CaseSets
    /\ processed_count = 0
    /\ results = <<>>
    /\ df_mean = <<>> /\ df_sum = <<>> /\ df_count = <<>>
    /\ combined_df = <<>>
    /\ csv_files = [m \in {"mean", "sum", "count"} |->
                        [exists |-> FALSE, rows |-> <<>>]]
    /\ ret = Pending
    /\ stdout = <<>>
    /\ summary_file = [exists |-> FALSE, total_cases_processed |-> 0]
    /\ top_n = 0
    /\ metrics_left = <<>>
    /\ metric = ""
    /\ df = <<>>
    /\ most_difficult = <<>> /\ least_difficult = <<>>
    /\ GenerateIdle

ProcessCase_skip_after_failure ==
    /\ pc = "process"
    /\ processed_count < Len(mask_files)
    /\ LET case_id == processed_count + 1
           result == calculate_edge_fuzziness(mask_files[case_id])
       IN  /\ results' =
                 IF result # None
                 THEN Append(results,
                             [case_id |-> case_id, mask_path |-> case_id,
                              mask_type |-> "probability"] @@ result)
                 ELSE results
           /\ stdout' =
                 IF result # None THEN stdout
                 ELSE Append(stdout, [msg |-> "Failed to process",
                                      case_id |-> case_id])
           /\ processed_count' =
                 IF result # None THEN processed_count + 1
                 ELSE Min2(processed_count + 2, Len(mask_files))
    /\ UNCHANGED <<volVars, pc, mask_files, df_mean, df_sum, df_count,
                   combined_df, csv_files, ret, summary_file, genVars>>

ProcessCase_keep_failed ==
    /\ pc = "process"
    /\ processed_count < Len(mask_files)
    /\ LET case_id == processed_count + 1
           result == calculate_edge_fuzziness(mask_files[case_id])
       IN  /\ results' =
                 Append(results,
                        [case_id |-> case_id, mask_path |-> case_id,
                         mask_type |-> "probability"]
                        @@ (IF result # None THEN result
                            ELSE calculate_edge_fuzziness(File(<<0>>))))
           /\ stdout' =
                 IF result # None THEN stdout
                 ELSE Append(stdout, [msg |-> "Failed to process",
                                      case_id |-> case_id])
    /\ processed_count' = processed_count + 1
    /\ UNCHANGED <<volVars, pc, mask_files, df_mean, df_sum, df_count,
                   combined_df, csv_files, ret, summary_file, genVars>>

ProcessCase_stop_on_failure ==
    /\ pc = "process"
    /\ processed_count < Len(mask_files)
    /\ LET case_id == processed_count + 1
           result == calculate_edge_fuzziness(mask_files[case_id])
       IN  /\ results' =
                 IF result # None
                 THEN Append(results,
                             [case_id |-> case_id, mask_path |-> case_id,
                              mask_type |-> "probability"] @@ result)
                 ELSE results
           /\ stdout' =
                 IF result # None THEN stdout
                 ELSE Append(stdout, [msg |-> "Failed to process",
                                      case_id |-> case_id])
           /\ processed_count' =
                 IF result # None THEN processed_count + 1
                 ELSE Len(mask_files)
    /\ UNCHANGED <<volVars, pc, mask_files, df_mean, df_sum, df_count,
                   combined_df, csv_files, ret, summary_file, genVars>>

\* One iteration of the loop over mask_files.items(): the metrics of the
\* case are appended to results, or its failure is printed.
ProcessCase ==
    /\ pc = "process"
    /\ processed_count < Len(mask_files)
    /\ LET case_id == processed_count + 1
           result == calculate_edge_fuzziness(mask_files[case_id])
       IN  /\ results' =
                 IF result # None
                 THEN Append(results,
                             [case_id |-> case_id, mask_path |-> case_id,
                              mask_type |-> "probability"] @@ result)
                 ELSE results
           /\ stdout' =
                 IF result # None THEN stdout
                 ELSE Append(stdout, [msg |-> "Failed to process",
                                      case_id |-> case_id])
    /\ processed_count' = processed_count + 1
    /\ UNCHANGED <<volVars, pc, mask_files, df_mean, df_sum, df_count,
                   combined_df, csv_files, ret, summary_file, genVars>>

LoopDone_before_last ==
    pc = "process" /\ processed_count >= Len(mask_files) - 1

\* The loop over mask_files.items() has visited every case.
LoopDone == pc = "process" /\ processed_count = Len(mask_files)

\* df = pd.DataFrame(results); len(df) > 0; ranking by mean uncertainty
RankMean ==
    /\ LoopDone
    /\ Len(results) > 0
    /\ \E s \in sort_values(results, "mean_uncertainty") :
          df_mean' = with_rank(s, "difficulty_rank_mean")
    /\ pc' = "rank_sum"
    /\ UNCHANGED <<volVars, mask_files, processed_count, results, df_sum,
                   df_count, combined_df, csv_files, ret, stdout,
                   summary_file, genVars>>

\* ranking by sum of uncertainties
RankSum ==
    /\ pc = "rank_sum"
    /\ \E s \in sort_values(results, "sum_uncertainties") :
          df_sum' = with_rank(s, "difficulty_rank_sum")
    /\ pc' = "rank_count"
    /\ UNCHANGED <<volVars, mask_files, processed_count, results, df_mean,
                   df_count, combined_df, csv_files, ret, stdout,
                   summary_file, genVars>>

\* ranking by count of uncertain pixels
RankCount ==
    /\ pc = "rank_count"
    /\ \E s \in sort_values(results, "count_uncertain") :
          df_count' = with_rank(s, "difficulty_rank_count")
    /\ pc' = "save"
    /\ UNCHANGED <<volVars, mask_files, processed_count, results, df_mean,
                   df_sum, combined_df, csv_files, ret, stdout,
                   summary_file, genVars>>

\* combined_df = df.copy() merged with the three rank columns
CombinedView ==
    merge(merge(merge(results, df_mean, "difficulty_rank_mean"),
                df_sum, "difficulty_rank_sum"),
          df_count, "difficulty_rank_count")

\* The ranking files and the combined file are written (index=False: the
\* rows and their columns), and (rankings, combined_df) is returned.
SaveRankings ==
    /\ pc = "save"
    /\ csv_files' = [mean |-> [exists |-> TRUE, rows |-> df_mean],
                     sum |-> [exists |-> TRUE, rows |-> df_sum],
                     count |-> [exists |-> TRUE, rows |-> df_count]]
    /\ combined_df' = CombinedView
    /\ ret' = [rankings |-> [mean |-> df_mean, sum |-> df_sum,
                             count |-> df_count],
               combined_df |-> CombinedView]
    /\ summary_file' = [exists |-> TRUE,
                        total_cases_processed |-> Len(results)]
    /\ stdout' = Append(stdout, [msg |-> "Processed cases successfully",
                                 n |-> Len(results)])
    /\ pc' = "analysis_done"
    /\ UNCHANGED <<volVars, mask_files, processed_count, results, df_mean,
                   df_sum, df_count, genVars>>

NoCases_writes_empty_tables ==
    /\ LoopDone
    /\ Len(results) = 0
    /\ csv_files' = [m \in {"mean", "sum", "count"} |->
                        [exists |-> TRUE, rows |-> <<>>]]
    /\ summary_file' = [exists |-> TRUE, total_cases_processed |-> 0]
    /\ ret' = [rankings |-> [mean |-> <<>>, sum |-> <<>>, count |-> <<>>],
               combined_df |-> <<>>]
    /\ stdout' = Append(stdout, [msg |-> "Processed cases successfully",
                                 n |-> 0])
    /\ pc' = "analysis_done"
    /\ UNCHANGED <<volVars, mask_files, processed_count, results, df_mean,
                   df_sum, df_count, combined_df, genVars>>

\* len(df) == 0: "No cases were processed successfully!", return None, None
NoCases ==
    /\ LoopDone
    /\ Len(results) = 0
    /\ ret' = [rankings |-> None, combined_df |-> None]
    /\ stdout' = Append(stdout,
                        [msg |-> "No cases were processed successfully!"])
    /\ pc' = "analysis_done"
    /\ UNCHANGED <<volVars, mask_files, processed_count, results, df_mean,
                   df_sum, df_count, combined_df, csv_files, summary_file,
                   genVars>>

\* ------------------------------------- generate_enhanced_uncertainty_masks
\* The column of the ranking csv that holds the metric.
metric_col(m) ==
    IF m = "sum" THEN "sum_uncertainties"
    ELSE IF m = "count" THEN "count_uncertain"
    ELSE "mean_uncertainty"

rank_col(m) ==
    IF m = "sum" THEN "difficulty_rank_sum"
    ELSE IF m = "count" THEN "difficulty_rank_count"
    ELSE "difficulty_rank_mean"

LeastDifficult_without_preference(t, col, n) == tail(t, n)

\* non_zero_cases = df[df[metric_col] > 0]; its tail when it has top_n rows,
\* else the tail of df.
LeastDifficult(t, col, n) ==
    LET non_zero_cases == SelectSeq(t, LAMBDA row : FracPos(row[col]))
    IN  IF Len(non_zero_cases) >= n
        THEN tail(non_zero_cases, n)
        ELSE tail(t, n)

\* most_difficult = df.head(top_n)
MostDifficult(t, n) == head(t, n)

\* source_file.exists() is False
Missing == [missing |-> TRUE, readable |-> FALSE, data |-> <<>>]

\* What source_dir can hold for a case: the file that was analysed, a file
\* that cannot be read, or nothing.
SourceDirs ==
    {f \in [DOMAIN mask_files -> CaseFiles \cup {Missing}] :
        \A c \in DOMAIN mask_files :
            IF mask_files[c].readable
            THEN f[c] \in {mask_files[c], Unreadable, Missing}
            ELSE f[c] = Unreadable}

\* The call, with its source_dir and top_n; the loop over the metrics starts.
StartGenerate ==
    /\ pc = "analysis_done"
    /\ \E n \in 1..MaxTopN : top_n' = n
    /\ source_files' \in SourceDirs
    /\ metrics_left' = Metrics
    /\ pc' = "generate"
    /\ UNCHANGED <<volVars, analysisVars, metric, df, most_difficult,
                   least_difficult, group, row_idx, created_most,
                   created_least, total_files_created, all_histogram_paths,
                   encoder_calls, info_files, gen_ret>>

SelectCases_from_first_csv ==
    /\ pc = "generate"
    /\ group = ""
    /\ metrics_left # <<>>
    /\ LET m == Head(metrics_left)
           t == csv_files[Metrics[1]].rows
       IN  /\ csv_files[m].exists
           /\ metric' = m
           /\ df' = t
           /\ most_difficult' = MostDifficult(t, top_n)
           /\ least_difficult' = LeastDifficult(t, metric_col(m), top_n)
    /\ metrics_left' = Tail(metrics_left)
    /\ group' = "most"
    /\ row_idx' = 0
    /\ created_most' = 0
    /\ UNCHANGED <<volVars, pc, analysisVars, top_n, source_files,
                   created_least, total_files_created, all_histogram_paths,
                   encoder_calls, info_files, gen_ret>>

\* An iteration whose csv exists: the table is read and the cases selected;
\* the loop over the most difficult cases starts.
SelectCases ==
    /\ pc = "generate"
    /\ group = ""
    /\ metrics_left # <<>>
    /\ LET m == Head(metrics_left)
           t == csv_files[m].rows
       IN  /\ csv_files[m].exists
           /\ metric' = m
           /\ df' = t
           /\ most_difficult' = MostDifficult(t, top_n)
           /\ least_difficult' = LeastDifficult(t, metric_col(m), top_n)
    /\ metrics_left' = Tail(metrics_left)
    /\ group' = "most"
    /\ row_idx' = 0
    /\ created_most' = 0
    /\ UNCHANGED <<volVars, pc, analysisVars, top_n, source_files,
                   created_least, total_files_created, all_histogram_paths,
                   encoder_calls, info_files, gen_ret>>

\* An iteration whose csv is missing: "WARNING: CSV file not found", continue
SkipMetric ==
    /\ pc = "generate"
    /\ group = ""
    /\ metrics_left # <<>>
    /\ ~csv_files[Head(metrics_left)].exists
    /\ metric' = Head(metrics_left)
    /\ metrics_left' = Tail(metrics_left)
    /\ UNCHANGED <<volVars, pc, analysisVars, top_n, df, most_difficult,
                   least_difficult, encVars>>

EncodeRow_stop_on_failure(selection) ==
    /\ pc = "generate"
    /\ row_idx < Len(selection)
    /\ LET case_id == selection[row_idx + 1].case_id
           source_file == source_files[case_id]
           r == create_uncertainty_mask_with_certain(source_file)
           success == source_file # Missing /\ r.success
       IN  /\ encoder_calls' =
                 IF source_file # Missing
                 THEN Append(encoder_calls,
                             [metric |-> metric, group |-> group,
                              case_id |-> case_id, success |-> r.success])
                 ELSE encoder_calls
           /\ created_most' =
                 IF success /\ group = "most"
                 THEN created_most + 1 ELSE created_most
           /\ created_least' =
                 IF success /\ group = "least"
                 THEN created_least + 1 ELSE created_least
           /\ total_files_created' =
                 IF success THEN total_files_created + 2
                 ELSE total_files_created
           /\ all_histogram_paths' =
                 IF success /\ r.histogram_path # "None"
                 THEN Append(all_histogram_paths,
                             [metric |-> metric, group |-> group,
                              case_id |-> case_id])
                 ELSE all_histogram_paths
           /\ stdout' =
                 IF source_file = Missing
                 THEN Append(stdout, [msg |-> "WARNING: Source file not found",
                                      case_id |-> case_id])
                 ELSE IF ~r.success
                      THEN Append(stdout, [msg |-> "ERROR processing",
                                           case_id |-> case_id])
                      ELSE stdout
           /\ row_idx' = IF success THEN row_idx + 1 ELSE Len(selection)
    /\ UNCHANGED <<volVars, pc, mask_files, processed_count, results,
                   df_mean, df_sum, df_count, combined_df, csv_files, ret,
                   summary_file, selVars, source_files, group, info_files,
                   gen_ret>>

\* One iteration of a loop over the rows of a selection: the encoder is
\* called when the source file of the case exists, and a success is counted.
EncodeRow(selection) ==
    /\ pc = "generate"
    /\ row_idx < Len(selection)
    /\ LET case_id == selection[row_idx + 1].case_id
           source_file == source_files[case_id]
           r == create_uncertainty_mask_with_certain(source_file)
           success == source_file # Missing /\ r.success
       IN  /\ encoder_calls' =
                 IF source_file # Missing
                 THEN Append(encoder_calls,
                             [metric |-> metric, group |-> group,
                              case_id |-> case_id, success |-> r.success])
                 ELSE encoder_calls
           /\ created_most' =
                 IF success /\ group = "most"
                 THEN created_most + 1 ELSE created_most
           /\ created_least' =
                 IF success /\ group = "least"
                 THEN created_least + 1 ELSE created_least
           /\ total_files_created' =
                 IF success THEN total_files_created + 2
                 ELSE total_files_created
           /\ all_histogram_paths' =
                 IF success /\ r.histogram_path # "None"
                 THEN Append(all_histogram_paths,
                             [metric |-> metric, group |-> group,
                              case_id |-> case_id])
                 ELSE all_histogram_paths
           /\ stdout' =
                 IF source_file = Missing
                 THEN Append(stdout, [msg |-> "WARNING: Source file not found",
                                      case_id |-> case_id])
                 ELSE IF ~r.success
                      THEN Append(stdout, [msg |-> "ERROR processing",
                                           case_id |-> case_id])
                      ELSE stdout
    /\ row_idx' = row_idx + 1
    /\ UNCHANGED <<volVars, pc, mask_files, processed_count, results,
                   df_mean, df_sum, df_count, combined_df, csv_files, ret,
                   summary_file, selVars, source_files, group, info_files,
                   gen_ret>>

\* for idx, row in most_difficult.iterrows()
EncodeMostDifficult ==
    /\ group = "most"
    /\ EncodeRow(most_difficult)

\* The loop over the most difficult cases is over; created_least = 0 and the
\* loop over the least difficult cases starts.
StartLeastDifficult ==
    /\ pc = "generate"
    /\ group = "most"
    /\ row_idx = Len(most_difficult)
    /\ group' = "least"
    /\ row_idx' = 0
    /\ created_least' = 0
    /\ UNCHANGED <<volVars, pc, analysisVars, selVars, source_files,
                   created_most, total_files_created, all_histogram_paths,
                   encoder_calls, info_files, gen_ret>>

\* for idx, row in least_difficult.iterrows()
EncodeLeastDifficult ==
    /\ group = "least"
    /\ EncodeRow(least_difficult)

\* Both loops are over: the info file of the metric is written.
WriteMetricInfo ==
    /\ pc = "generate"
    /\ group = "least"
    /\ row_idx = Len(least_difficult)
    /\ info_files' = [info_files EXCEPT ![metric] =
                         [exists |-> TRUE, created_most |-> created_most,
                          created_least |-> created_least]]
    /\ group' = ""
    /\ UNCHANGED <<volVars, pc, analysisVars, selVars, source_files, row_idx,
                   created_most, created_least, total_files_created,
                   all_histogram_paths, encoder_calls, gen_ret>>

\* After the last metric the overall summary is written and the totals are
\* returned.
FinishGenerate ==
    /\ pc = "generate"
    /\ group = ""
    /\ metrics_left = <<>>
    /\ gen_ret' = [total_files_created |-> total_files_created,
                   histograms |-> Len(all_histogram_paths)]
    /\ pc' = "done"
    /\ UNCHANGED <<volVars, analysisVars, selVars, source_files, group,
                   row_idx, created_most, created_least, total_files_created,
                   all_histogram_paths, encoder_calls, info_files>>

Next ==
    \/ ProcessCase
    \/ RankMean
    \/ RankSum
    \/ RankCount
    \/ SaveRankings
    \/ NoCases
    \/ StartGenerate
    \/ SelectCases
    \/ SkipMetric
    \/ EncodeMostDifficult
    \/ StartLeastDifficult
    \/ EncodeLeastDifficult
    \/ WriteMetricInfo
    \/ FinishGenerate

Spec == Init /\ [][Next]_vars

\* process_all_masks is one sequential call: a step of it that can be taken
\* is taken.
ProcessAllMasks ==
    ProcessCase \/ RankMean \/ RankSum \/ RankCount \/ SaveRankings \/ NoCases

SpecLive == Init /\ [][Next]_vars /\ WF_vars(ProcessAllMasks)

\* ------------------------------------------------- claims on one volume
\* Sum of f[i] over the positions i of the set S.
RECURSIVE SumOver(_, _)
SumOver(S, f) ==
    IF S = {} THEN 0
    ELSE LET i == CHOOSE j \in S : TRUE IN f[i] + SumOver(S \ {i}, f)

Positions == DOMAIN vol_file.data
StrictlyBetween == {i \in Positions : 0 < vol_file.data[i] /\ vol_file.data[i] < One}
Positive == {i \in Positions : vol_file.data[i] > 0}
Fuzzed == fuzziness # Pending /\ fuzziness # None
Encoded == encoded # Pending /\ encoded.success
TrueAt(mask) == {i \in DOMAIN mask : mask[i]}

\* C1: for every volume, values below 0 or above 1 included, the encoder's
\* background, uncertain and certain-foreground voxel sets are pairwise
\* disjoint and together cover every voxel position.
C1_PartitionOfAllVoxels ==
    Encoded =>
        LET B == TrueAt(encoded.background_mask)
            U == TrueAt(encoded.uncertain_mask)
            C == TrueAt(encoded.certain_fg_mask)
        IN  /\ B \cap U = {} /\ B \cap C = {} /\ U \cap C = {}
            /\ B \cup U \cup C = Positions

\* C2: mean_uncertainty is the arithmetic mean of 1 - p over exactly the
\* voxels with 0 < p < 1, and it is exactly 0.0 with count_uncertain 0 when
\* there is no such voxel (as in every volume with values in {0, 1} only).
C2_MeanOverUncertain ==
    Fuzzed =>
        LET U == StrictlyBetween
            one_minus_p == [i \in Positions |-> One - vol_file.data[i]]
        IN  /\ fuzziness.count_uncertain = Frac(Cardinality(U), 1)
            /\ U # {} =>
                 FracEq(fuzziness.mean_uncertainty,
                        Frac(SumOver(U, one_minus_p), Cardinality(U)))
            /\ U = {} => fuzziness.mean_uncertainty = Frac(0, 1)
            /\ (\A i \in Positions : vol_file.data[i] \in {0, One}) =>
                 /\ fuzziness.mean_uncertainty = Frac(0, 1)
                 /\ fuzziness.count_uncertain = Frac(0, 1)

\* The volume [0.2, 0.5, 0.8] has mean uncertainty 0.5.
C2_Witness ==
    /\ Fuzzed
    /\ vol_file.data = <<20, 50, 80>>
    /\ FracEq(fuzziness.mean_uncertainty, Frac(50, 1))

\* C3: sum_uncertainties is the number of voxels with p > 0 minus the sum of
\* p over all voxels; the non-zero voxels 1.0, 1.0, 0.5 give 0.5.
C3_SumIsCountMinusSum ==
    Fuzzed =>
        /\ fuzziness.sum_uncertainties =
               Frac(Cardinality(Positive) * One
                    - SumOver(Positions, vol_file.data), 1)
        /\ vol_file.data = <<100, 100, 50>> =>
               fuzziness.sum_uncertainties = Frac(50, 1)

C3_Witness ==
    /\ Fuzzed
    /\ vol_file.data = <<100, 100, 50>>
    /\ fuzziness.sum_uncertainties = Frac(50, 1)

\* C4: when every value lies in [0,1], sum_uncertainties is the sum of 1 - p
\* over the uncertain voxels (mean_uncertainty x count_uncertain): 0 when
\* every non-zero voxel is 1.0, positive with one uncertain voxel, never
\* negative.
InUnitRange == \A i \in Positions : 0 <= vol_file.data[i] /\ vol_file.data[i] <= One

C4_SumOverUncertainInRange ==
    (Fuzzed /\ InUnitRange) =>
        LET U == StrictlyBetween
            one_minus_p == [i \in Positions |-> One - vol_file.data[i]]
            s == fuzziness.sum_uncertainties
            m == fuzziness.mean_uncertainty
        IN  /\ s = Frac(SumOver(U, one_minus_p), 1)
            /\ m.num * fuzziness.count_uncertain.num = s.num * m.den
            /\ (\A i \in Positive : vol_file.data[i] = One) => s.num = 0
            /\ U # {} => s.num > 0
            /\ s.num >= 0

C4_Witness ==
    /\ Fuzzed /\ InUnitRange
    /\ \E i \in Positions : vol_file.data[i] = One
    /\ \E i \in Positions : vol_file.data[i] = 0
    /\ StrictlyBetween # {}
    /\ fuzziness.sum_uncertainties.num > 0

\* ------------------------------------------------- claims on the batch
SuccessfulCases == {i \in DOMAIN mask_files : mask_files[i].readable}
Ranked == pc \in {"save", "analysis_done", "generate", "done"} /\ Len(results) > 0
Saved == pc \in {"analysis_done", "generate", "done"} /\ Len(results) > 0
Selected == pc \in {"generate", "done"} /\ metric # "" /\ csv_files[metric].exists
CaseIds(t) == {t[i].case_id : i \in 1..Len(t)}

\* The ranks of table t are a bijection between the processed cases and
\* 1..N, and a smaller rank never has a smaller metric value.
RankingIsDescendingBijection(t, rcol, mcol) ==
    LET N == Cardinality(SuccessfulCases)
    IN  /\ Len(t) = N
        /\ CaseIds(t) = SuccessfulCases
        /\ {t[i][rcol] : i \in 1..Len(t)} = 1..N
        /\ \A i, j \in 1..Len(t) :
              /\ t[i].case_id = t[j].case_id => i = j
              /\ t[i][rcol] = t[j][rcol] => i = j
              /\ t[i][rcol] < t[j][rcol] => FracGeq(t[i][mcol], t[j][mcol])

\* C5: for each of the three metrics the ranks over the N processed cases
\* are a bijection between the cases and 1..N, and rank(a) < rank(b) implies
\* metric(a) >= metric(b).
C5_RanksAreDescendingBijection ==
    Ranked =>
        /\ RankingIsDescendingBijection(df_mean, "difficulty_rank_mean",
                                        "mean_uncertainty")
        /\ RankingIsDescendingBijection(df_sum, "difficulty_rank_sum",
                                        "sum_uncertainties")
        /\ RankingIsDescendingBijection(df_count, "difficulty_rank_count",
                                        "count_uncertain")

\* Two processed cases, enumerated in ascending order of their mean, ranked.
C5_Witness ==
    /\ Ranked
    /\ Len(results) = 2
    /\ ~FracGeq(results[1].mean_uncertainty, results[2].mean_uncertainty)
    /\ df_mean[1].case_id = 2
    /\ df_mean[2].difficulty_rank_mean = 2

\* In table t, of two cases of equal metric value the one enumerated first
\* has the smaller rank.
TiesInEnumerationOrder(t, rcol, mcol) ==
    \A i, j \in 1..Len(t) :
        (FracEq(t[i][mcol], t[j][mcol]) /\ t[i].case_id < t[j].case_id)
            => t[i][rcol] < t[j][rcol]

\* C6: of two cases with equal value of the ranked metric, the case that
\* comes earlier in the enumeration receives the smaller rank.
C6_TiesKeepEnumerationOrder ==
    Ranked =>
        /\ TiesInEnumerationOrder(df_mean, "difficulty_rank_mean",
                                  "mean_uncertainty")
        /\ TiesInEnumerationOrder(df_sum, "difficulty_rank_sum",
                                  "sum_uncertainties")
        /\ TiesInEnumerationOrder(df_count, "difficulty_rank_count",
                                  "count_uncertain")

\* The row of table t for case c.
RowOf(t, c) == t[CHOOSE i \in 1..Len(t) : t[i].case_id = c]

\* C7: the combined view has exactly one row per processed case, and the row
\* carries the rank of the case in each of the three rankings.
C7_CombinedViewOneRowPerCase ==
    Saved =>
        /\ Len(combined_df) = Cardinality(SuccessfulCases)
        /\ \A c \in SuccessfulCases :
              /\ Cardinality({i \in 1..Len(combined_df) :
                                 combined_df[i].case_id = c}) = 1
              /\ \A i \in 1..Len(combined_df) :
                    combined_df[i].case_id = c =>
                      /\ combined_df[i].difficulty_rank_mean =
                             RowOf(df_mean, c).difficulty_rank_mean
                      /\ combined_df[i].difficulty_rank_sum =
                             RowOf(df_sum, c).difficulty_rank_sum
                      /\ combined_df[i].difficulty_rank_count =
                             RowOf(df_count, c).difficulty_rank_count
        /\ ret.combined_df = combined_df

\* Two processed cases; the first is ranked 2 by mean and 1 by sum without
\* any tie.
C7_Witness ==
    /\ Saved
    /\ Len(combined_df) = 2
    /\ combined_df[1].case_id = 1
    /\ combined_df[1].difficulty_rank_mean = 2
    /\ combined_df[1].difficulty_rank_sum = 1
    /\ ~FracEq(results[1].mean_uncertainty, results[2].mean_uncertainty)
    /\ ~FracEq(results[1].sum_uncertainties, results[2].sum_uncertainties)

\* Positions of t whose metric value is strictly positive.
NonZeroAt(t, col) == {i \in 1..Len(t) : t[i][col].num > 0}

\* The rows of t at the positions K, in table order.
RowsAt(t, K) ==
    [k \in 1..Cardinality(K) |->
        t[CHOOSE i \in K : Cardinality({j \in K : j < i}) = k - 1]]

\* The last n positions of the set K of positions.
LastOf(K, n) == {i \in K : Cardinality({j \in K : j > i}) < n}

ExampleTable ==
    << [case_id |-> 4, count_uncertain |-> [num |-> 5, den |-> 1]],
       [case_id |-> 3, count_uncertain |-> [num |-> 2, den |-> 1]],
       [case_id |-> 2, count_uncertain |-> [num |-> 1, den |-> 1]],
       [case_id |-> 1, count_uncertain |-> [num |-> 0, den |-> 1]] >>

\* C8: the least-difficult selection is the last N rows of the sub-table of
\* cases with metric value > 0 when that sub-table has at least N rows, and
\* otherwise the last N rows of the full table; for the values [0,1,2,5] and
\* N = 2 it is the cases with values 2 and 1.
C8_LeastDifficultPrefersNonZero ==
    /\ Selected =>
          LET NZ == NonZeroAt(df, metric_col(metric))
          IN  IF Cardinality(NZ) >= top_n
              THEN least_difficult = RowsAt(df, LastOf(NZ, top_n))
              ELSE least_difficult = RowsAt(df, LastOf(1..Len(df), top_n))
    /\ LeastDifficult(ExampleTable, "count_uncertain", 2)
           = <<ExampleTable[2], ExampleTable[3]>>

\* Enough non-zero cases, and a zero case that the selection leaves out.
C8_Witness ==
    /\ Selected
    /\ top_n = 1
    /\ Len(df) = 2
    /\ df[2][metric_col(metric)].num = 0
    /\ least_difficult = <<df[1]>>

\* C9: the most-difficult and the least-difficult selections share no case.
C9_SelectionsDisjoint ==
    Selected => CaseIds(most_difficult) \cap CaseIds(least_difficult) = {}

\* C10: the most-difficult selection is the first N rows of the ranked table
\* (the cases ranked 1..N), and when the table has at least N rows both
\* selections have exactly N cases.
C10_MostDifficultFirstN ==
    Selected =>
        /\ \A k \in 1..Len(most_difficult) :
              /\ most_difficult[k] = df[k]
              /\ most_difficult[k][rank_col(metric)] = k
        /\ Len(most_difficult) = Min2(top_n, Len(df))
        /\ Len(df) >= top_n =>
              /\ Len(most_difficult) = top_n
              /\ Len(least_difficult) = top_n

\* A table of two cases, enumerated in ascending order, and N = 1.
C10_Witness ==
    /\ Selected
    /\ top_n = 1
    /\ Len(df) = 2
    /\ most_difficult = <<df[1]>>
    /\ most_difficult[1].case_id = 2
    /\ Len(least_difficult) = 1

\* ------------------------------------------ claims on the encoded volume
\* The voxel classes, stated on the source values.
BackgroundAt == {i \in Positions : vol_file.data[i] = 0}
UncertainAt == StrictlyBetween
CertainFgAt == {i \in Positions : vol_file.data[i] >= One}

\* The uncertainty 1 - p of voxel i in the unit of the continuous array.
UncertaintyAt(i) == (One - vol_file.data[i]) * CertainDen

\* Smallest value of f over the non-empty set S of positions.
MinOver(S, f) == CHOOSE v \in {f[i] : i \in S} : \A j \in S : v <= f[j]
MaxOver(S, f) == CHOOSE v \in {f[i] : i \in S} : \A j \in S : v >= f[j]

\* C11: in the continuous array every background voxel holds 0, every
\* uncertain voxel holds 1 - p, and every certain-foreground voxel holds the
\* single certain-value policy value of the case.
C11_ContinuousByClass ==
    Encoded =>
        /\ \A i \in BackgroundAt : encoded.uncertainty_float[i] = 0
        /\ \A i \in UncertainAt :
              encoded.uncertainty_float[i] = UncertaintyAt(i)
        /\ \A i \in CertainFgAt :
              encoded.uncertainty_float[i] =
                  encoded.stats.certain_uncertainty_value

\* A volume with a voxel of each class.
C11_Witness ==
    /\ Encoded
    /\ vol_file.data = <<0, 20, 100>>
    /\ encoded.uncertainty_float = <<0, 80 * CertainDen, 80 * CertainNum>>

\* C12: the policy value is 0.95 x min(1 - p over the uncertain voxels) when
\* the case has an uncertain voxel and 0.01 when it has none; a minimum
\* uncertainty of 0.1 gives 0.095.
C12_CertainValuePolicy ==
    /\ Encoded =>
          LET v == encoded.stats.certain_uncertainty_value
              unc == [i \in Positions |-> UncertaintyAt(i)]
          IN  IF UncertainAt # {}
              THEN v * 100 = 95 * MinOver(UncertainAt, unc)
              ELSE v * 100 = FloatOne
    /\ create_uncertainty_mask_with_certain(File(<<90, 100>>))
           .stats.certain_uncertainty_value * 1000 = 95 * FloatOne

\* Uncertain voxels 0.5 and 0.8 and a certain voxel: 0.95 x 0.2 = 0.19.
C12_Witness ==
    /\ Encoded
    /\ vol_file.data = <<50, 80, 100>>
    /\ encoded.stats.certain_uncertainty_value * 100 = 19 * FloatOne
    /\ encoded.uncertainty_float[3] * 100 = 19 * FloatOne

\* a / b rounded to the nearest integer, halves to the even one (a, b > 0)
RoundDiv(a, b) ==
    LET q == a \div b
        r == a % b
    IN  IF 2 * r < b THEN q
        ELSE IF 2 * r > b THEN q + 1
        ELSE IF q % 2 = 0 THEN q ELSE q + 1

Clip(x, lo, hi) == IF x < lo THEN lo ELSE IF x > hi THEN hi ELSE x

NonZeroContinuous == {i \in Positions : encoded.uncertainty_float[i] # 0}

\* C13: for every voxel with non-zero continuous value c in a case with
\* maximum continuous value m > 0, the discrete value is
\* clip(round(c / m x 254) + 1, 1, 255).
C13_DiscreteIsRounded ==
    Encoded =>
        \A i \in NonZeroContinuous :
            LET c == encoded.uncertainty_float[i]
                m == MaxOver(NonZeroContinuous, encoded.uncertainty_float)
            IN  m > 0 =>
                  encoded.uncertainty_uint8[i] =
                      Clip(RoundDiv(c * 254, m) + 1, 1, 255)

\* C14: every voxel with non-zero continuous value has a discrete value in
\* [1, 255], and every voxel whose continuous value is the maximum of the
\* case has discrete value 255.
C14_DiscreteRange ==
    Encoded =>
        \A i \in NonZeroContinuous :
            /\ encoded.uncertainty_uint8[i] >= 1
            /\ encoded.uncertainty_uint8[i] <= 255
            /\ encoded.uncertainty_float[i] =
                   MaxOver(NonZeroContinuous, encoded.uncertainty_float)
               => encoded.uncertainty_uint8[i] = 255

\* Two different non-zero continuous values: the larger encodes to 255, the
\* smaller to a value below.
C14_Witness ==
    /\ Encoded
    /\ vol_file.data = <<20, 80, 0>>
    /\ encoded.uncertainty_uint8[1] = 255
    /\ encoded.uncertainty_uint8[2] \in 1..254
    /\ encoded.uncertainty_uint8[3] = 0

\* C15: for every voxel the discrete value is 0 iff the continuous value is
\* 0, and the continuous value is 0 iff the source value is 0.
C15_ZeroIffBackground ==
    Encoded =>
        \A i \in Positions :
            /\ encoded.uncertainty_uint8[i] = 0
                   <=> encoded.uncertainty_float[i] = 0
            /\ encoded.uncertainty_float[i] = 0 <=> vol_file.data[i] = 0

\* C16: the positions where the continuous array is non-zero are the union
\* of the uncertain and the certain-foreground sets of the classification,
\* that is, the positions whose source value is not 0.
C16_NonZeroPositionsRoundTrip ==
    Encoded =>
        /\ NonZeroContinuous =
               TrueAt(encoded.uncertain_mask) \cup TrueAt(encoded.certain_fg_mask)
        /\ NonZeroContinuous = {i \in Positions : vol_file.data[i] # 0}
        /\ Len(encoded.histogram_values) = Cardinality(NonZeroContinuous)

\* C17: in a case with both uncertain and certain-foreground voxels, the
\* continuous value of each certain-foreground voxel is above 0 and below the
\* value of every uncertain voxel.
C17_CertainBelowUncertain ==
    (Encoded /\ UncertainAt # {} /\ CertainFgAt # {}) =>
        \A c \in CertainFgAt :
            /\ encoded.uncertainty_float[c] > 0
            /\ \A u \in UncertainAt :
                  encoded.uncertainty_float[c] < encoded.uncertainty_float[u]

C17_Witness ==
    /\ Encoded
    /\ vol_file.data = <<150, 80, 50>>
    /\ encoded.uncertainty_float[1] > 0
    /\ encoded.uncertainty_float[1] < encoded.uncertainty_float[2]
    /\ encoded.uncertainty_float[2] < encoded.uncertainty_float[3]

\* ------------------------------------------- claims on the failed cases
FailedCases == DOMAIN mask_files \ SuccessfulCases
AnalysisDone == pc \in {"analysis_done", "generate", "done"}

\* C18: a case whose metric computation fails does not stop the batch: the
\* cases after it are still processed and the results of the cases before it
\* are kept.
C18_FailureDoesNotStopBatch ==
    pc # "idle" =>
        /\ processed_count <= Len(mask_files)
        /\ pc # "process" => processed_count = Len(mask_files)
        /\ Len(results) = Cardinality(SuccessfulCases \cap 1..processed_count)
        /\ \A i \in 1..processed_count :
              mask_files[i].readable <=> i \in CaseIds(results)
        /\ \A i, j \in 1..Len(results) :
              i < j => results[i].case_id < results[j].case_id

\* The first case fails, the second one is processed and ranked.
C18_Witness ==
    /\ AnalysisDone
    /\ Len(mask_files) = 2
    /\ ~mask_files[1].readable
    /\ processed_count = 2
    /\ CaseIds(results) = {2}
    /\ Len(df_mean) = 1

\* C19: at the end of a batch every failed case is in a collected failure
\* record, and the run reports the number of failures and the identifiers of
\* the failed cases.
C19_FailuresReportedInAggregate ==
    (AnalysisDone /\ FailedCases # {}) =>
        \/ \E k \in 1..Len(stdout) :
              /\ {"failed_cases", "failed_count"} \subseteq DOMAIN stdout[k]
              /\ stdout[k].failed_cases = FailedCases
              /\ stdout[k].failed_count = Cardinality(FailedCases)
        \/ /\ {"failed_cases", "failed_count"} \subseteq DOMAIN summary_file
           /\ summary_file.failed_cases = FailedCases
           /\ summary_file.failed_count = Cardinality(FailedCases)

\* C20: the case identifiers of each ranked table and of the combined view
\* are exactly the cases whose metric computation succeeded.
C20_TablesHoldSuccessfulCases ==
    Saved =>
        /\ CaseIds(df_mean) = SuccessfulCases
        /\ CaseIds(df_sum) = SuccessfulCases
        /\ CaseIds(df_count) = SuccessfulCases
        /\ CaseIds(combined_df) = SuccessfulCases
        /\ \A m \in {"mean", "sum", "count"} :
              CaseIds(csv_files[m].rows) = SuccessfulCases
        /\ summary_file.total_cases_processed = Cardinality(SuccessfulCases)

\* One case could not be read, the other is in every table.
C20_Witness ==
    /\ Saved
    /\ Len(mask_files) = 2
    /\ ~mask_files[2].readable
    /\ CaseIds(combined_df) = {1}
    /\ CaseIds(csv_files["count"].rows) = {1}

\* ------------------------------------ claims on the discrete array, counts
\* C26: in the discrete array of a case that has both uncertain and certain
\* foreground voxels, every certain foreground voxel has a strictly smaller
\* value than every uncertain voxel.
C26_DiscreteCertainBelowUncertain ==
    Encoded /\ UncertainAt # {} /\ CertainFgAt # {} =>
        \A c \in CertainFgAt : \A u \in UncertainAt :
            encoded.uncertainty_uint8[c] < encoded.uncertainty_uint8[u]

\* C27: the discrete encoding keeps the order of the continuous encoding:
\* two voxels with continuous values c1 <= c2 have discrete values d1 <= d2.
C27_DiscretePreservesOrder ==
    Encoded =>
        \A i, j \in Positions :
            encoded.uncertainty_float[i] <= encoded.uncertainty_float[j]
                => encoded.uncertainty_uint8[i] <= encoded.uncertainty_uint8[j]

C27_Witness ==
    /\ Encoded
    /\ vol_file.data = <<50, 100, 0>>
    /\ encoded.uncertainty_float[2] < encoded.uncertainty_float[1]
    /\ encoded.uncertainty_uint8 = <<255, 242, 0>>

\* C28: in a case without uncertain voxels and with at least one certain
\* foreground voxel, every non-background voxel has the continuous value 0.01
\* and the discrete value 255, and every background voxel has 0 in both.
C28_BinaryMaskEncoding ==
    Encoded /\ UncertainAt = {} /\ CertainFgAt # {} =>
        /\ \A i \in Positions \ BackgroundAt :
              /\ encoded.uncertainty_float[i] * 100 = FloatOne
              /\ encoded.uncertainty_uint8[i] = 255
        /\ \A i \in BackgroundAt :
              /\ encoded.uncertainty_float[i] = 0
              /\ encoded.uncertainty_uint8[i] = 0

\* C29: for every volume the counts per class of calculate_edge_fuzziness
\* equal the counts per class in the statistics of the encoder.
C29_ClassCountsAgree ==
    Fuzzed /\ Encoded =>
        /\ fuzziness.background_voxels = encoded.stats.background_voxels
        /\ fuzziness.certain_foreground_voxels
               = encoded.stats.certain_fg_voxels
        /\ fuzziness.uncertain_voxels = encoded.stats.uncertain_voxels

\* ------------------------------------------------- claims on the metadata
\* C25 as stated: encoding leaves the source array and its metadata
\* unchanged, and both derived arrays are new arrays of the shape of the
\* source that carry the affine and the header of the source unchanged.
C25_OutputsCarrySourceMetadata ==
    Encoded =>
        /\ DOMAIN encoded.float_image.data = DOMAIN vol_file.data
        /\ DOMAIN encoded.uint8_image.data = DOMAIN vol_file.data
        /\ encoded.float_image.affine = vol_file.affine
        /\ encoded.uint8_image.affine = vol_file.affine
        /\ encoded.float_image.header = vol_file.header
        /\ encoded.uint8_image.header = vol_file.header

\* Both saved images hold the derived arrays, the affine of the source and
\* its header with the data type of the array.
OutputsCarrySpatialMetadata ==
    Encoded =>
        /\ encoded.float_image.data = encoded.uncertainty_float
        /\ encoded.uint8_image.data = encoded.uncertainty_uint8
        /\ DOMAIN encoded.float_image.data = DOMAIN vol_file.data
        /\ DOMAIN encoded.uint8_image.data = DOMAIN vol_file.data
        /\ encoded.float_image.affine = vol_file.affine
        /\ encoded.uint8_image.affine = vol_file.affine
        /\ encoded.float_image.header =
               [vol_file.header EXCEPT !.datatype = "float32"]
        /\ encoded.uint8_image.header =
               [vol_file.header EXCEPT !.datatype = "uint8"]

\* C25 amended: encoding leaves the source array and its metadata unchanged,
\* and both derived arrays are new arrays of the shape of the source that
\* carry the affine of the source unchanged and its header unchanged but for
\* the data type, which is float32 on the continuous and uint8 on the
\* discrete array.
C25_EncodingKeepsSourceAndSpatialMetadata ==
    /\ []OutputsCarrySpatialMetadata
    /\ [][vol_file' = vol_file]_vars

C25_Witness ==
    /\ Encoded
    /\ vol_file.affine = "affine_b"
    /\ vol_file.header = [pixdim |-> "pixdim_b", datatype |-> "uint8"]
    /\ vol_file.data = <<50, 100, 0>>
    /\ encoded.float_image.header =
           [pixdim |-> "pixdim_b", datatype |-> "float32"]
    /\ encoded.uint8_image.affine = "affine_b"

\* -------------------------------------- claims on the run of the batch
\* The cases whose failure was printed.
PrintedFailures ==
    {stdout[k].case_id :
        k \in {j \in 1..Len(stdout) : stdout[j].msg = "Failed to process"}}

\* C21: when no case is processed successfully (no case, or every case
\* fails) process_all_masks ranks nothing, writes no ranking, combined or
\* summary output and returns (None, None).
C21_NoOutputWithoutSuccess ==
    AnalysisDone /\ SuccessfulCases = {} =>
        /\ ret = [rankings |-> None, combined_df |-> None]
        /\ df_mean = <<>> /\ df_sum = <<>> /\ df_count = <<>>
        /\ combined_df = <<>>
        /\ \A m \in {"mean", "sum", "count"} : ~csv_files[m].exists
        /\ ~summary_file.exists

C21_Witness ==
    /\ pc = "analysis_done"
    /\ mask_files = <<Unreadable, Unreadable>>
    /\ processed_count = 2
    /\ ret = [rankings |-> None, combined_df |-> None]

\* C23: no step that sorts or ranks for a metric is taken before every
\* enumerated case has completed its metric computation, with a result or
\* with a failure.
C23_RankingAfterAllCases ==
    [][(df_mean' # df_mean \/ df_sum' # df_sum \/ df_count' # df_count)
          => /\ processed_count = Len(mask_files)
             /\ CaseIds(results) \cup PrintedFailures = DOMAIN mask_files]_vars

C23_Witness ==
    /\ pc = "rank_sum"
    /\ Len(mask_files) = 2
    /\ mask_files[2].readable
    /\ processed_count = 2
    /\ 2 \in CaseIds(df_mean)

\* The step of the loop for case k: the metric computation of case k is
\* invoked, and its result is appended or its failure printed.
CaseStep ==
    /\ processed_count' = processed_count + 1
    /\ processed_count' \in DOMAIN mask_files
    /\ \/ /\ mask_files[processed_count'].readable
          /\ Len(results') = Len(results) + 1
          /\ results'[Len(results')].case_id = processed_count'
          /\ stdout' = stdout
       \/ /\ ~mask_files[processed_count'].readable
          /\ results' = results
          /\ stdout' = Append(stdout, [msg |-> "Failed to process",
                                       case_id |-> processed_count'])

\* C30: process_all_masks terminates for every finite case set, after
\* invoking the metric computation once per enumerated case in enumeration
\* order; then the number of result records plus the number of failed
\* cases is the number of enumerated cases.
C30_TerminatesAfterOneCallPerCase ==
    /\ <>(ret # Pending)
    /\ [][(processed_count' # processed_count \/ results' # results)
            => CaseStep]_vars
    /\ [](ret # Pending =>
            /\ processed_count = Len(mask_files)
            /\ Len(results) + Cardinality(PrintedFailures) = Len(mask_files)
            /\ Cardinality(PrintedFailures) = Cardinality(FailedCases))

C30_Witness ==
    /\ pc = "analysis_done"
    /\ Len(mask_files) = 2
    /\ ~mask_files[1].readable
    /\ mask_files[2].readable
    /\ Len(results) = 1
    /\ PrintedFailures = {1}

\* ------------------------------------ claims on the encoding of the batch
\* The selections of metric m, by what the ranking csv of m holds.
MostSelection(m) ==
    LET t == csv_files[m].rows
    IN  RowsAt(t, 1..Min2(top_n, Len(t)))

LeastSelection(m) ==
    LET t == csv_files[m].rows
        NZ == NonZeroAt(t, metric_col(m))
    IN  IF Cardinality(NZ) >= top_n
        THEN RowsAt(t, LastOf(NZ, top_n))
        ELSE RowsAt(t, LastOf(1..Len(t), top_n))

Selection(m, g) == IF g = "most" THEN MostSelection(m) ELSE LeastSelection(m)

IdsOf(t) == [k \in 1..Len(t) |-> t[k].case_id]

\* The calls of the encoder for the selection g of metric m, in call order.
CallsFor(m, g) ==
    SelectSeq(encoder_calls, LAMBDA c : c.metric = m /\ c.group = g)

\* The rows of a selection whose source file exists / can be encoded.
WithSource(t) ==
    SelectSeq(t, LAMBDA row : source_files[row.case_id] # Missing)

Encodable(t) ==
    SelectSeq(t, LAMBDA row : source_files[row.case_id].readable)

MetricDone(m) == info_files[m].exists

\* C22: a selected case whose source volume is missing or whose encoding
\* raises is skipped and not counted as a success, and every other selected
\* case of the same metric and of the remaining metrics is still encoded.
C22_FailedEncodingIsSkipped ==
    /\ \A m \in {"mean", "sum", "count"} :
          MetricDone(m) =>
            /\ info_files[m].created_most = Len(Encodable(MostSelection(m)))
            /\ info_files[m].created_least = Len(Encodable(LeastSelection(m)))
            /\ \A g \in {"most", "least"} :
                  IdsOf(SelectSeq(CallsFor(m, g), LAMBDA c : c.success))
                      = IdsOf(Encodable(Selection(m, g)))
    /\ pc = "done" =>
          /\ \A m \in {"mean", "sum", "count"} :
                csv_files[m].exists => MetricDone(m)
          /\ gen_ret.total_files_created =
                 2 * Len(SelectSeq(encoder_calls, LAMBDA c : c.success))

C22_Witness ==
    /\ pc = "done"
    /\ top_n = 2
    /\ Len(csv_files["mean"].rows) = 2
    /\ source_files[csv_files["mean"].rows[1].case_id] = Unreadable
    /\ source_files[csv_files["mean"].rows[2].case_id].readable
    /\ info_files["mean"].created_most = 1
    /\ info_files["count"].created_least = 1
    /\ gen_ret.total_files_created = 12

\* C24: the selection is applied to each of the three metrics from the
\* ranking of that metric alone, and for each metric the encoder is invoked
\* once for every case of the most-difficult selection and once for every
\* case of the least-difficult selection whose source volume exists.
C24_EncoderCalledPerSelectedCase ==
    /\ \A m \in {"mean", "sum", "count"} :
          /\ MetricDone(m) =>
                \A g \in {"most", "least"} :
                    IdsOf(CallsFor(m, g)) = IdsOf(WithSource(Selection(m, g)))
          /\ ~csv_files[m].exists => CallsFor(m, "most") \o CallsFor(m, "least") = <<>>
    /\ pc = "done" =>
          \A m \in {"mean", "sum", "count"} :
              csv_files[m].exists => MetricDone(m)

C24_Witness ==
    /\ pc = "done"
    /\ top_n = 1
    /\ mask_files = <<File(<<20, 50, 80>>), File(<<0, 10>>)>>
    /\ source_files[1].readable
    /\ source_files[2] = Missing
    /\ IdsOf(encoder_calls) = <<1, 1, 1>>
    /\ encoder_calls[1].group = "least"
    /\ encoder_calls[2].metric = "sum"
    /\ encoder_calls[2].group = "most"
====
